---- MODULE Spec2Model ----
(***************************************************************************)
(* Model of .github/scripts/update_readme.py: the script that rewrites the *)
(* version of the shapeindicators dependency inside README.md.             *)
(*                                                                         *)
(* Text is a sequence of tokens.  A token is a literal piece of text that  *)
(* the three regular expressions treat as a unit: the literal words of the *)
(* patterns ("implementation", "io.github.dp-hridayan:", "shapeindicators",*)
(* ":", "=", "(", ")"), one whitespace character, one quote character, one *)
(* character of the class [0-9.], or a piece of other text.  The text a    *)
(* sequence stands for is the concatenation of its tokens.                 *)
(***************************************************************************)
EXTENDS Integers, Sequences, FiniteSets, TLC

VARIABLES environ, disk, pc, VERSION, content, exitStatus, log, orig, first, history

vars == <<environ, disk, pc, VERSION, content, exitStatus, log, orig, first, history>>

\* ---------------------------------------------------------------- bounds
MaxChunks == 2
MaxRuns == 2

\* ---------------------------------------------------------------- tokens
impl == "implementation"
grp == "io.github.dp-hridayan:"
art == "shapeindicators"
dq == "\""
sq == "'"

README_FILE == "README.md"

\* \s of the patterns
IsSpace(t) == t \in {" ", "\n"}

\* ["\'] of pattern1 and pattern2
IsQuote(t) == t \in {dq, sq}

\* [0-9.] of the three patterns
IsVerChar(t) == t \in {"0", "1", "2", "3", "4", "5", "6", "7", "8", "9", "."}

\* the token at position i, or the empty text past the end
At(s, i) == IF i >= 1 /\ i <= Len(s) THEN s[i] ELSE ""

\* \s* : greedy, the position after the run of whitespace starting at i
RECURSIVE SkipSpace(_, _)
SkipSpace(s, i) == IF IsSpace(At(s, i)) THEN SkipSpace(s, i + 1) ELSE i

\* [0-9.]+ : greedy, the position after the run of version characters at i
RECURSIVE SkipVer(_, _)
SkipVer(s, i) == IF IsVerChar(At(s, i)) THEN SkipVer(s, i + 1) ELSE i

\* A match at position i: group 1 is s[i..vs-1], the version segment is
\* s[vs..ve-1], group 2 is s[ve..end-1].
NoMatch == [ok |-> FALSE, vs |-> 0, ve |-> 0, end |-> 0]

\* (implementation\s*["\']io\.github\.dp-hridayan:shapeindicators:)[0-9.]+(["\'])
pattern1(s, i) ==
    LET j == SkipSpace(s, i + 1)
        k == SkipVer(s, j + 4)
    IN  IF /\ At(s, i) = impl
           /\ IsQuote(At(s, j))
           /\ At(s, j + 1) = grp
           /\ At(s, j + 2) = art
           /\ At(s, j + 3) = ":"
           /\ k > j + 4
           /\ IsQuote(At(s, k))
        THEN [ok |-> TRUE, vs |-> j + 4, ve |-> k, end |-> k + 1]
        ELSE NoMatch

\* (implementation\(\s*["\']io\.github\.dp-hridayan:shapeindicators:)[0-9.]+(["\']\))
pattern2(s, i) ==
    LET j == SkipSpace(s, i + 2)
        k == SkipVer(s, j + 4)
    IN  IF /\ At(s, i) = impl
           /\ At(s, i + 1) = "("
           /\ IsQuote(At(s, j))
           /\ At(s, j + 1) = grp
           /\ At(s, j + 2) = art
           /\ At(s, j + 3) = ":"
           /\ k > j + 4
           /\ IsQuote(At(s, k))
           /\ At(s, k + 1) = ")"
        THEN [ok |-> TRUE, vs |-> j + 4, ve |-> k, end |-> k + 2]
        ELSE NoMatch

\* mutant: pattern3 compiled with re.IGNORECASE
pattern3IgnoreCase(s, i) ==
    LET j == SkipSpace(s, i + 1)
        q == SkipSpace(s, j + 1)
        k == SkipVer(s, q + 1)
    IN  IF /\ At(s, i) \in {art, "ShapeIndicators"}
           /\ At(s, j) = "="
           /\ At(s, q) = dq
           /\ k > q + 1
           /\ At(s, k) = dq
        THEN [ok |-> TRUE, vs |-> q + 1, ve |-> k, end |-> k + 1]
        ELSE [ok |-> FALSE, vs |-> 0, ve |-> 0, end |-> 0]

\* (shapeindicators\s*=\s*")[0-9.]+(")
pattern3(s, i) ==
    LET j == SkipSpace(s, i + 1)
        q == SkipSpace(s, j + 1)
        k == SkipVer(s, q + 1)
    IN  IF /\ At(s, i) = art
           /\ At(s, j) = "="
           /\ At(s, q) = dq
           /\ k > q + 1
           /\ At(s, k) = dq
        THEN [ok |-> TRUE, vs |-> q + 1, ve |-> k, end |-> k + 1]
        ELSE NoMatch

MatchAt(p, s, i) ==
    CASE p = 1 -> pattern1(s, i)
      [] p = 2 -> pattern2(s, i)
      [] OTHER -> pattern3(s, i)

\* mutant: group 2 opens before the version class, the old version is kept
ReplKeepOld(s, i, m, v) == SubSeq(s, i, m.vs - 1) \o v \o SubSeq(s, m.vs, m.end - 1)

\* mutant: the replacement leaves out m.group(2)
ReplDropGroup2(s, i, m, v) == SubSeq(s, i, m.vs - 1) \o v

\* lambda m: f"{m.group(1)}{VERSION}{m.group(2)}"
Repl(s, i, m, v) == SubSeq(s, i, m.vs - 1) \o v \o SubSeq(s, m.ve, m.end - 1)

\* mutant: re.sub called with count=1
RECURSIVE ReSubFirstOnly(_, _, _, _)
ReSubFirstOnly(p, v, s, i) ==
    IF i > Len(s) THEN <<>>
    ELSE LET m == MatchAt(p, s, i)
         IN  IF m.ok THEN Repl(s, i, m, v) \o SubSeq(s, m.end, Len(s))
             ELSE <<s[i]>> \o ReSubFirstOnly(p, v, s, i + 1)

\* re.sub(pattern, repl, s): scan from the left, replace every match, resume
\* after the match; copy the token where nothing matches.
RECURSIVE ReSubFrom(_, _, _, _)
ReSubFrom(p, v, s, i) ==
    IF i > Len(s) THEN <<>>
    ELSE LET m == MatchAt(p, s, i)
         IN  IF m.ok THEN Repl(s, i, m, v) \o ReSubFrom(p, v, s, m.end)
             ELSE <<s[i]>> \o ReSubFrom(p, v, s, i + 1)

ReSub(p, v, s) == ReSubFrom(p, v, s, 1)

\* lines 18-20
Substitute(s, v) == ReSub(3, v, ReSub(2, v, ReSub(1, v, s)))

\* ------------------------------------------------------------ environment
\* os.environ.get(name): the value, or None
EnvGet(e, name) ==
    IF \E b \in e : b[1] = name
    THEN [isNone |-> FALSE, str |-> (CHOOSE b \in e : b[1] = name)[2]]
    ELSE [isNone |-> TRUE, str |-> <<>>]

None == [isNone |-> TRUE, str |-> <<>>]

\* mutant: `VERSION is None` instead of `not VERSION`
NotVersionNoneOnly(v) == v.isNone

\* `not VERSION`: None and the empty string are falsy
NotVersion(v) == v.isNone \/ v.str = <<>>

FileExists(d) == \E f \in d : f[1] = README_FILE
FileData(d) == (CHOOSE f \in d : f[1] = README_FILE)[2]
WithFile(data) == {<<README_FILE, data>>}

\* ------------------------------------------------------ inputs of the model
Catalog == <<
    <<impl, " ", dq, grp, art, ":", "1", ".", "0", ".", "0", dq>>,
    <<impl, sq, grp, art, ":", "0", ".", "9", sq>>,
    <<impl, "(", dq, grp, art, ":", "1", ".", "0", ".", "0", dq, ")">>,
    <<art, " ", "=", " ", dq, "1", ".", "0", ".", "0", dq>>,
    <<"my">>,
    <<"other-">>,
    <<"Implementation", " ", dq, grp, art, ":", "1", ".", "0", dq>>,
    <<"ShapeIndicators", " ", "=", " ", dq, "1", ".", "0", dq>>,
    <<impl, " ", dq, "io.github.other:", art, ":", "1", ".", "0", dq>>,
    <<impl, " ", dq, grp, "otherlib", ":", "1", ".", "0", dq>>,
    <<"version", " ", "1", ".", "0", "\n">>,
    <<impl, "(", dq, grp, art, ":", "1", ".", "0", dq, "\n">>
>>

RECURSIVE Concat(_)
Concat(cs) == IF cs = <<>> THEN <<>> ELSE Catalog[Head(cs)] \o Concat(Tail(cs))

ChunkSeqs == UNION {[1..n -> DOMAIN Catalog] : n \in 0..MaxChunks}

Docs == {Concat(cs) : cs \in ChunkSeqs}

\* values of LATEST_VERSION: empty, digits and dots, and other text
Versions == {
    <<>>,
    <<"1", ".", "2", ".", "0">>,
    <<"2">>,
    <<"1", dq>>
}

Environs == {{}} \cup {{<<"LATEST_VERSION", v>>} : v \in Versions}

Disks == {{}} \cup {WithFile(d) : d \in Docs}

\* ------------------------------------------------------------------- Init
Init ==
    /\ environ \in Environs
    /\ disk \in Disks
    /\ pc = "check"
    /\ VERSION = None
    /\ content = <<>>
    /\ exitStatus = -1
    /\ log = <<>>
    /\ orig = disk
    /\ first = disk
    /\ history = <<>>

\* ---------------------------------------------------------------- actions
\* lines 5-7, VERSION falsy: exit(1)
VersionMissing ==
    /\ pc = "check"
    /\ NotVersion(EnvGet(environ, "LATEST_VERSION"))
    /\ VERSION' = EnvGet(environ, "LATEST_VERSION")
    /\ pc' = "exited"
    /\ exitStatus' = 1
    /\ log' = log \o <<"check", "exit">>
    /\ UNCHANGED <<environ, disk, content, orig, first, history>>

\* lines 5-6, VERSION truthy
VersionPresent ==
    /\ pc = "check"
    /\ ~NotVersion(EnvGet(environ, "LATEST_VERSION"))
    /\ VERSION' = EnvGet(environ, "LATEST_VERSION")
    /\ pc' = "open_r"
    /\ log' = Append(log, "check")
    /\ UNCHANGED <<environ, disk, content, exitStatus, orig, first, history>>

\* mutant: the file opened with mode "w+", which truncates it
OpenReadTruncating ==
    /\ pc = "open_r"
    /\ FileExists(disk)
    /\ disk' = WithFile(<<>>)
    /\ pc' = "read"
    /\ log' = Append(log, "open_r")
    /\ UNCHANGED <<environ, VERSION, content, exitStatus, orig, first, history>>

\* line 11: open(README_FILE, "r")
OpenRead ==
    /\ pc = "open_r"
    /\ FileExists(disk)
    /\ pc' = "read"
    /\ log' = Append(log, "open_r")
    /\ UNCHANGED <<environ, disk, VERSION, content, exitStatus, orig, first, history>>

\* line 11 raises OSError (no such file, permission denied): traceback, status 1
OpenReadFail ==
    /\ pc = "open_r"
    /\ pc' = "exited"
    /\ exitStatus' = 1
    /\ log' = Append(log, "raise")
    /\ UNCHANGED <<environ, disk, VERSION, content, orig, first, history>>

\* line 12 and the end of the with block: f.read(), then f.close()
Read ==
    /\ pc = "read"
    /\ content' = FileData(disk)
    /\ pc' = "sub1"
    /\ log' = log \o <<"read", "close_r">>
    /\ UNCHANGED <<environ, disk, VERSION, exitStatus, orig, first, history>>

\* line 12 raises (I/O error, undecodable bytes): the with block closes f
ReadFail ==
    /\ pc = "read"
    /\ pc' = "exited"
    /\ exitStatus' = 1
    /\ log' = log \o <<"close_r", "raise">>
    /\ UNCHANGED <<environ, disk, VERSION, content, orig, first, history>>

\* line 18
Sub1 ==
    /\ pc = "sub1"
    /\ content' = ReSub(1, VERSION.str, content)
    /\ pc' = "sub2"
    /\ log' = Append(log, "sub1")
    /\ UNCHANGED <<environ, disk, VERSION, exitStatus, orig, first, history>>

\* mutant: line 19 left out
Sub2Skipped ==
    /\ pc = "sub2"
    /\ content' = content
    /\ pc' = "sub3"
    /\ log' = Append(log, "sub2")
    /\ UNCHANGED <<environ, disk, VERSION, exitStatus, orig, first, history>>

\* line 19
Sub2 ==
    /\ pc = "sub2"
    /\ content' = ReSub(2, VERSION.str, content)
    /\ pc' = "sub3"
    /\ log' = Append(log, "sub2")
    /\ UNCHANGED <<environ, disk, VERSION, exitStatus, orig, first, history>>

\* line 20
Sub3 ==
    /\ pc = "sub3"
    /\ content' = ReSub(3, VERSION.str, content)
    /\ pc' = "open_w"
    /\ log' = Append(log, "sub3")
    /\ UNCHANGED <<environ, disk, VERSION, exitStatus, orig, first, history>>

\* mutant: the block of lines 22-23 placed before the block of lines 11-12
OpenWriteBeforeRead ==
    /\ pc = "open_r"
    /\ disk' = WithFile(<<>>)
    /\ pc' = "write"
    /\ log' = Append(log, "open_w")
    /\ UNCHANGED <<environ, VERSION, content, exitStatus, orig, first, history>>

\* line 22: open(README_FILE, "w") truncates the file
OpenWrite ==
    /\ pc = "open_w"
    /\ disk' = WithFile(<<>>)
    /\ pc' = "write"
    /\ log' = Append(log, "open_w")
    /\ UNCHANGED <<environ, VERSION, content, exitStatus, orig, first, history>>

\* line 22 raises OSError (permission denied, read-only file system)
OpenWriteFail ==
    /\ pc = "open_w"
    /\ pc' = "exited"
    /\ exitStatus' = 1
    /\ log' = Append(log, "raise")
    /\ UNCHANGED <<environ, disk, VERSION, content, orig, first, history>>

\* line 23 and the end of the with block: f.write(content), f.close();
\* the script ends, status 0
Write ==
    /\ pc = "write"
    /\ disk' = WithFile(content)
    /\ pc' = "exited"
    /\ exitStatus' = 0
    /\ log' = log \o <<"write", "close_w">>
    /\ history' = Append(history, VERSION.str)
    /\ UNCHANGED <<environ, VERSION, content, orig, first>>

\* mutant: the OSError of the write caught and ignored
WriteFailSwallowed ==
    /\ pc = "write"
    /\ \E n \in 0..Len(content) :
          /\ n < Len(content) \/ n = 0
          /\ disk' = WithFile(SubSeq(content, 1, n))
    /\ pc' = "exited"
    /\ exitStatus' = 0
    /\ log' = log \o <<"close_w", "raise">>
    /\ UNCHANGED <<environ, VERSION, content, orig, first, history>>

\* line 23 or the flush at close raises OSError (disk full, I/O error): only a
\* proper prefix of content, possibly nothing, has reached the file
WriteFail ==
    /\ pc = "write"
    /\ \E n \in 0..Len(content) :
          /\ n < Len(content) \/ n = 0
          /\ disk' = WithFile(SubSeq(content, 1, n))
    /\ pc' = "exited"
    /\ exitStatus' = 1
    /\ log' = log \o <<"close_w", "raise">>
    /\ UNCHANGED <<environ, VERSION, content, orig, first, history>>

Next ==
    \/ VersionMissing
    \/ VersionPresent
    \/ OpenRead
    \/ OpenReadFail
    \/ Read
    \/ ReadFail
    \/ Sub1
    \/ Sub2
    \/ Sub3
    \/ OpenWrite
    \/ OpenWriteFail
    \/ Write
    \/ WriteFail

Spec == Init /\ [][Next]_vars

\* ------------------------------------------------------- successive releases
\* The release pipeline runs the script once per release: after a run that
\* ended with status 0, a new process starts on the file the last run left,
\* with the LATEST_VERSION of the new release.
Rerun ==
    /\ pc = "exited"
    /\ exitStatus = 0
    /\ Len(history) < MaxRuns
    /\ environ' \in Environs
    /\ pc' = "check"
    /\ VERSION' = None
    /\ content' = <<>>
    /\ exitStatus' = -1
    /\ log' = <<>>
    /\ orig' = disk
    /\ UNCHANGED <<disk, first, history>>

InitRuns == Init /\ FileExists(disk)

\* runs in which no I/O error occurs, one after the other
NextRuns ==
    \/ VersionMissing
    \/ VersionPresent
    \/ OpenRead
    \/ Read
    \/ Sub1
    \/ Sub2
    \/ Sub3
    \/ OpenWrite
    \/ Write
    \/ Rerun

SpecRuns == InitRuns /\ [][NextRuns]_vars

\* ------------------------------------------------------------- properties
\* a version made of digits and dots only
Valid(v) == v # <<>> /\ \A i \in 1..Len(v) : IsVerChar(v[i])

AllValid(h) == \A i \in 1..Len(h) : Valid(h[i])

Succeeded == pc = "exited" /\ exitStatus = 0

\* every place of the text where one of the three patterns matches
Occurrences(s) == {o \in (1..3) \X (1..Len(s)) : MatchAt(o[1], s, o[2]).ok}

VerOf(s, o) == LET m == MatchAt(o[1], s, o[2]) IN SubSeq(s, m.vs, m.ve - 1)

\* the version segments of the text, as <<first position, position after>>
Segments(s) ==
    {<<MatchAt(o[1], s, o[2]).vs, MatchAt(o[1], s, o[2]).ve>> : o \in Occurrences(s)}

\* the text with each of the given segments replaced by v, nothing else changed
RECURSIVE ReplaceSegs(_, _, _, _)
ReplaceSegs(s, v, segs, i) ==
    IF i > Len(s) THEN <<>>
    ELSE IF \E g \in segs : g[1] = i
         THEN v \o ReplaceSegs(s, v, segs, (CHOOSE g \in segs : g[1] = i)[2])
         ELSE <<s[i]>> \o ReplaceSegs(s, v, segs, i + 1)

ReplaceAll(s, v) == ReplaceSegs(s, v, Segments(s), 1)

IsPrefix(a, b) == Len(a) <= Len(b) /\ SubSeq(b, 1, Len(a)) = a

IsSuffix(a, b) == Len(a) <= Len(b) /\ SubSeq(b, Len(b) - Len(a) + 1, Len(b)) = a

EmptyOrProperPrefix(a, b) ==
    a = <<>> \/ (LET t == b IN Len(a) < Len(t) /\ SubSeq(t, 1, Len(a)) = a)

Has(e) == \E i \in 1..Len(log) : log[i] = e

V120 == <<"1", ".", "2", ".", "0">>

\* C1: with LATEST_VERSION unset or empty the run never opens README.md, the
\* file keeps its contents, and the run ends with status 1.
C1_NoVersionNoAccess ==
    (environ = {} \/ environ = {<<"LATEST_VERSION", <<>>>>}) =>
        /\ disk = orig
        /\ pc \in {"check", "exited"}
        /\ ~Has("open_r") /\ ~Has("open_w") /\ ~Has("read") /\ ~Has("write")
        /\ pc = "exited" => exitStatus = 1

C1_Witness ==
    /\ pc = "exited"
    /\ environ = {<<"LATEST_VERSION", <<>>>>}
    /\ FileExists(disk)
    /\ Occurrences(FileData(disk)) # {}

\* C2: after a successful run with a version of digits and dots, the file is
\* the original text with the version segment of every occurrence of the three
\* patterns replaced by the version, all other text as it was (the three lines
\* of the examples included).
C2_AllReplaced ==
    (Succeeded /\ Valid(VERSION.str)) =>
        /\ disk = WithFile(ReplaceAll(FileData(orig), VERSION.str))
        /\ (VERSION.str = V120 /\ orig = WithFile(Catalog[1])) =>
               disk = WithFile(<<impl, " ", dq, grp, art, ":">> \o V120 \o <<dq>>)
        /\ (VERSION.str = V120 /\ orig = WithFile(Catalog[2])) =>
               disk = WithFile(<<impl, sq, grp, art, ":">> \o V120 \o <<sq>>)
        /\ (VERSION.str = V120 /\ orig = WithFile(Catalog[3])) =>
               disk = WithFile(<<impl, "(", dq, grp, art, ":">> \o V120 \o <<dq, ")">>)
        /\ (VERSION.str = V120 /\ orig = WithFile(Catalog[4])) =>
               disk = WithFile(<<art, " ", "=", " ", dq>> \o V120 \o <<dq>>)

C2_Witness ==
    /\ Succeeded
    /\ Valid(VERSION.str)
    /\ Occurrences(FileData(orig)) # {}
    /\ disk # orig
    /\ \E o \in Occurrences(FileData(disk)) : VerOf(FileData(disk), o) = VERSION.str

\* C3 as stated: a second successful run with the same version, whatever the
\* version, leaves the file as the first run left it.
C3_IdempotentAnyVersion ==
    (Succeeded /\ Len(history) >= 2
        /\ history[Len(history)] = history[Len(history) - 1]) => disk = orig

\* C3 amended: a second successful run with the same version of digits and
\* dots leaves the file as the first run left it.
C3_IdempotentValidVersion ==
    (Succeeded /\ Len(history) >= 2
        /\ history[Len(history)] = history[Len(history) - 1]
        /\ Valid(VERSION.str)) => disk = orig

C3_Witness ==
    /\ Succeeded
    /\ Len(history) = 2
    /\ history[1] = history[2]
    /\ Valid(VERSION.str)
    /\ first # disk
    /\ disk = orig

\* documents made only of text that has none of the three shapes: other case,
\* other owner, other artifact, version numbers in prose, an unclosed call
NearMiss == {5, 6, 7, 8, 9, 10, 11, 12}

NearMissDocs ==
    {Concat(cs) : cs \in UNION {[1..n -> NearMiss] : n \in 0..MaxChunks}}

\* C4: text that has none of the three shapes is written back as it was read:
\* a document without a match is unchanged, and so is a document made of near
\* misses; next to matches, such text at either end of the document stays.
C4_OtherTextUntouched ==
    Succeeded =>
        /\ Occurrences(FileData(orig)) = {} => disk = orig
        /\ FileData(orig) \in NearMissDocs => disk = orig
        /\ \A c \in NearMiss :
              /\ IsPrefix(Catalog[c], FileData(orig)) => IsPrefix(Catalog[c], FileData(disk))
              /\ IsSuffix(Catalog[c], FileData(orig)) => IsSuffix(Catalog[c], FileData(disk))

C4_Witness ==
    /\ Succeeded
    /\ FileData(orig) = Catalog[8] \o Catalog[11]
    /\ disk = orig

\* what the run would write
Target == Substitute(FileData(orig), VERSION.str)

\* C5 as stated: whatever fails, the file afterwards holds its original
\* contents or the fully substituted contents.
C5_OriginalOrComplete ==
    (pc = "exited" /\ FileExists(orig)) =>
        disk = orig \/ (VERSION.str # <<>> /\ disk = WithFile(Target))

\* C5 amended: a failure of the check, of the read or of the open for writing
\* leaves the original contents; a successful run leaves the fully substituted
\* contents; a failure of the write, after the open for writing has truncated
\* the file, leaves it empty or holding a proper prefix of the substituted
\* contents (content, which is the substituted text when the write begins).
C5_OriginalCompleteOrPrefix ==
    /\ pc = "write" => content = Target
    /\ pc = "exited" =>
        /\ (exitStatus # 0 /\ ~Has("open_w")) => disk = orig
        /\ exitStatus = 0 => disk = WithFile(Target)
        /\ (exitStatus # 0 /\ Has("open_w")) =>
              /\ FileExists(disk)
              /\ EmptyOrProperPrefix(FileData(disk), content)

C5_Witness ==
    /\ pc = "exited"
    /\ exitStatus # 0
    /\ Has("open_w")
    /\ disk # orig
    /\ disk # WithFile(Target)
    /\ FileData(disk) # <<>>

\* C6: a run ends with status 0 exactly when it wrote the substituted
\* document back; with status 1 when the version is missing or empty; with a
\* status other than 0 when reading or writing failed.
C6_ExitStatus ==
    /\ pc # "exited" => exitStatus = -1
    /\ pc = "exited" =>
          /\ exitStatus \in {0, 1}
          /\ exitStatus = 0 <=> (Has("write") /\ ~Has("raise") /\ disk = WithFile(Target))
          /\ (environ = {} \/ environ = {<<"LATEST_VERSION", <<>>>>}) => exitStatus = 1
          /\ Has("raise") => exitStatus # 0
          /\ (~Has("write")) => exitStatus # 0

C6_Witness ==
    /\ pc = "exited"
    /\ exitStatus = 0
    /\ Has("write")
    /\ disk # orig

\* C7 as stated: after a successful run, whatever the version, every
\* occurrence in the file holds the supplied version.
C7_UniformAnyVersion ==
    Succeeded =>
        \A o \in Occurrences(FileData(disk)) : VerOf(FileData(disk), o) = VERSION.str

\* C7 amended: after a successful run with a version of digits and dots, every
\* occurrence of the original document is still an occurrence and every
\* occurrence in the file holds the supplied version.
C7_UniformValidVersion ==
    (Succeeded /\ Valid(VERSION.str)) =>
        /\ Cardinality(Occurrences(FileData(disk))) = Cardinality(Occurrences(FileData(orig)))
        /\ \A o \in Occurrences(FileData(disk)) : VerOf(FileData(disk), o) = VERSION.str

C7_Witness ==
    /\ Succeeded
    /\ Valid(VERSION.str)
    /\ \E o1, o2 \in Occurrences(FileData(orig)) :
          /\ o1[1] # o2[1]
          /\ VerOf(FileData(orig), o1) # VerOf(FileData(orig), o2)
          /\ VerOf(FileData(orig), o1) # VERSION.str
          /\ VerOf(FileData(orig), o2) # VERSION.str

\* the order of the steps of a run
Order == <<"check", "open_r", "read", "close_r", "sub1", "sub2", "sub3",
           "open_w", "write", "close_w">>

Rank(e) == IF \E r \in 1..Len(Order) : Order[r] = e
           THEN CHOOSE r \in 1..Len(Order) : Order[r] = e
           ELSE Len(Order) + 1

\* C8: the steps of a run happen in the order check, open, read, close,
\* substitute, reopen for writing, write, each at most once; the file is
\* opened for writing only after it was read and closed, and never after a
\* failed read.
C8_StepOrder ==
    /\ \A i \in 1..(Len(log) - 1) : Rank(log[i]) < Rank(log[i + 1])
    /\ \A i \in 1..(Len(log) - 1) : Rank(log[i]) <= Len(Order)
    /\ Has("open_w") => (Len(log) >= 8 /\ \A i \in 1..8 : log[i] = Order[i])
    /\ Has("write") => Has("open_w")
    /\ (Has("raise") /\ ~Has("read")) => ~Has("open_w")
    /\ pc \in {"sub1", "sub2", "sub3", "open_w"} => (Has("close_r") /\ disk = orig)

C8_Witness ==
    /\ pc = "exited"
    /\ log = Order

\* C9: pattern 3 rewrites the assignment to shapeindicators itself and leaves
\* alone an assignment to a longer identifier that ends in that name.
C9_OnlyBareAssignment ==
    (Succeeded /\ VERSION.str = V120) =>
        /\ orig = WithFile(Catalog[4]) =>
               disk = WithFile(<<art, " ", "=", " ", dq>> \o V120 \o <<dq>>)
        /\ orig = WithFile(<<"my">> \o Catalog[4]) => disk = orig
        /\ orig = WithFile(<<"other-">> \o Catalog[4]) => disk = orig

\* C10: after successful runs whose versions are all made of digits and dots,
\* the file is what one run with the last version makes of the original
\* document, and every occurrence of the original is still an occurrence.
C10_LastVersionWins ==
    (Succeeded /\ AllValid(history)) =>
        /\ disk = WithFile(Substitute(FileData(first), VERSION.str))
        /\ disk = WithFile(ReplaceAll(FileData(first), VERSION.str))
        /\ Cardinality(Occurrences(FileData(disk))) = Cardinality(Occurrences(FileData(first)))

C10_Witness ==
    /\ Succeeded
    /\ Len(history) = 2
    /\ AllValid(history)
    /\ history[1] # history[2]
    /\ Cardinality(Occurrences(FileData(first))) >= 2
    /\ disk # orig

====
